---- MODULE Spec2Model ----
(***************************************************************************)
(* FinSightAI backend: the balance-sheet extraction pipeline               *)
(* (backend/services/gemini_processor.py, backend/models/schemas.py) and   *)
(* the bearer-token guard (backend/auth/jwt_guard.py).                     *)
(*                                                                         *)
(* Text is a sequence of tokens.  A token is a record [c, v]:              *)
(*   c = "ch"   one character: punctuation, a backtick, a whitespace       *)
(*   c = "str"  a JSON string literal whose content is v                   *)
(*   c = "num"  a JSON number literal whose lexeme is v                    *)
(*   c = "word" a run of letters (json, true, null, a word of prose)       *)
(* The character operations of the code (strip, startswith, endswith,      *)
(* slicing by 7 / 3 / -3, find, rfind) never cut a token of the texts used *)
(* here: backticks, braces and whitespace are single characters, "json" is *)
(* exactly four characters, and no literal contains a brace or a backtick. *)
(*                                                                         *)
(* A Python Optional is a sequence of length 0 (None) or 1.                *)
(***************************************************************************)
EXTENDS Integers, Sequences, FiniteSets, TLC

\* ------------------------------------------------------------------ bounds
MaxItems == 2
MaxRawLen == 3
MaxInvocations == 2
RecursionLimit == 4

\* ------------------------------------------------------------------ tokens
Ch(x) == [c |-> "ch", v |-> x]
S(x) == [c |-> "str", v |-> x]
N(x) == [c |-> "num", v |-> x]
W(x) == [c |-> "word", v |-> x]

Backtick == Ch("backtick")
Newline == Ch("newline")
Space == Ch("space")

None == <<>>
Some(x) == <<x>>

\* str.strip() with no argument removes whitespace; these are the whitespace
\* characters of the texts used here.
Whitespace == {Space, Newline}

RECURSIVE lstrip(_)
lstrip(t) == IF t # <<>> /\ Head(t) \in Whitespace THEN lstrip(Tail(t)) ELSE t

RECURSIVE rstrip(_)
rstrip(t) ==
    IF t # <<>> /\ t[Len(t)] \in Whitespace THEN rstrip(SubSeq(t, 1, Len(t) - 1)) ELSE t

strip(t) == rstrip(lstrip(t))

\* text.startswith(fence + "json"): three backticks and the four letters json.
startswith_fence_json(t) ==
    /\ Len(t) >= 4
    /\ t[1] = Backtick /\ t[2] = Backtick /\ t[3] = Backtick
    /\ t[4] = W("json")

\* text.startswith(fence): three backticks.
startswith_fence(t) ==
    /\ Len(t) >= 3
    /\ t[1] = Backtick /\ t[2] = Backtick /\ t[3] = Backtick

\* text.endswith(fence)
endswith_fence(t) ==
    /\ Len(t) >= 3
    /\ t[Len(t)] = Backtick /\ t[Len(t) - 1] = Backtick /\ t[Len(t) - 2] = Backtick

\* text.find('{'): the first index of the character, 0 when there is none
\* (Python's -1; indices here start at 1).
RECURSIVE find_from(_, _, _)
find_from(t, x, i) ==
    IF i > Len(t) THEN 0 ELSE IF t[i] = Ch(x) THEN i ELSE find_from(t, x, i + 1)

find(t, x) == find_from(t, x, 1)

\* text.rfind('}'): the last index of the character, 0 when there is none.
RECURSIVE rfind_from(_, _, _)
rfind_from(t, x, i) ==
    IF i < 1 THEN 0 ELSE IF t[i] = Ch(x) THEN i ELSE rfind_from(t, x, i - 1)

rfind(t, x) == rfind_from(t, x, Len(t))

\* -------------------------------------------------------------- JSON values
\* A decoded JSON value: k its Python type, s a str's content, n a number in
\* hundredths (1000.5 is 100050) or a bool as 0/1, m the members of a list
\* (key "") or of a dict, in insertion order.
JNull == [k |-> "null", s |-> "", n |-> 0, m |-> <<>>]
JBool(b) == [k |-> "bool", s |-> "", n |-> IF b THEN 1 ELSE 0, m |-> <<>>]
JNum(x) == [k |-> "num", s |-> "", n |-> x, m |-> <<>>]
JStr(x) == [k |-> "str", s |-> x, n |-> 0, m |-> <<>>]
JList(ms) == [k |-> "list", s |-> "", n |-> 0, m |-> ms]
JDict(ms) == [k |-> "dict", s |-> "", n |-> 0, m |-> ms]
Member(key, val) == [key |-> key, val |-> val]

\* The number literals of the texts used here and the float each denotes, in
\* hundredths.
NumberLexemes == {"0", "5", "42", "100", "1000.50"}
NumberValue(x) ==
    CASE x = "0" -> 0
      [] x = "5" -> 500
      [] x = "42" -> 4200
      [] x = "100" -> 10000
      [] x = "1000.50" -> 100050

\* float(s) of a str: the strings of the texts used here that float() accepts.
NumericStrings == {"0", "5", "42", "100", "1000.50"}

\* Python truthiness: (not x) holds of None, False, 0, "", [] and {}.
Falsy(x) ==
    \/ x.k = "null"
    \/ x.k = "bool" /\ x.n = 0
    \/ x.k = "num" /\ x.n = 0
    \/ x.k = "str" /\ x.s = ""
    \/ x.k \in {"list", "dict"} /\ x.m = <<>>

\* (key in d) for a dict d.
HasKey(d, key) == \E i \in 1..Len(d.m) : d.m[i].key = key

\* d.get(key) / d[key] for a key the dict holds.
Get(d, key) == d.m[CHOOSE i \in 1..Len(d.m) : d.m[i].key = key].val

\* d[key] = val while decoding an object: a repeated key keeps its first
\* position and takes the last value.
DictSet(ms, key, val) ==
    IF \E i \in 1..Len(ms) : ms[i].key = key
    THEN [i \in 1..Len(ms) |-> IF ms[i].key = key THEN Member(key, val) ELSE ms[i]]
    ELSE Append(ms, Member(key, val))

\* ------------------------------------------------------------- json.loads
\* A decoding outcome: st = "ok" with the value v and the index i after it,
\* "err" (json.JSONDecodeError) or "rec" (RecursionError: the document nests
\* deeper than the interpreter's recursion limit).
POk(v, i) == [st |-> "ok", v |-> v, i |-> i]
PErr == [st |-> "err", v |-> JNull, i |-> 0]
PRec == [st |-> "rec", v |-> JNull, i |-> 0]

JsonWhitespace == {Space, Newline}

RECURSIVE skip_ws(_, _)
skip_ws(t, i) == IF i <= Len(t) /\ t[i] \in JsonWhitespace THEN skip_ws(t, i + 1) ELSE i

RECURSIVE scan_once(_, _, _)
RECURSIVE scan_object(_, _, _, _)
RECURSIVE scan_array(_, _, _, _)

\* One JSON value starting at index i (no leading whitespace), d containers
\* deep.
scan_once(t, i, d) ==
    IF i > Len(t) THEN PErr
    ELSE CASE t[i].c = "str" -> POk(JStr(t[i].v), i + 1)
           [] t[i].c = "num" -> POk(JNum(NumberValue(t[i].v)), i + 1)
           [] t[i] = W("null") -> POk(JNull, i + 1)
           [] t[i] = W("true") -> POk(JBool(TRUE), i + 1)
           [] t[i] = W("false") -> POk(JBool(FALSE), i + 1)
           [] t[i] = Ch("{") ->
                IF d + 1 > RecursionLimit THEN PRec
                ELSE LET j == skip_ws(t, i + 1) IN
                     IF j <= Len(t) /\ t[j] = Ch("}") THEN POk(JDict(<<>>), j + 1)
                     ELSE scan_object(t, j, d + 1, <<>>)
           [] t[i] = Ch("[") ->
                IF d + 1 > RecursionLimit THEN PRec
                ELSE LET j == skip_ws(t, i + 1) IN
                     IF j <= Len(t) /\ t[j] = Ch("]") THEN POk(JList(<<>>), j + 1)
                     ELSE scan_array(t, j, d + 1, <<>>)
           [] OTHER -> PErr

\* The members of an object from index i, which must hold a key.
scan_object(t, i, d, acc) ==
    IF i > Len(t) \/ t[i].c # "str" THEN PErr
    ELSE LET c == skip_ws(t, i + 1) IN
         IF c > Len(t) \/ t[c] # Ch(":") THEN PErr
         ELSE LET r == scan_once(t, skip_ws(t, c + 1), d) IN
              IF r.st # "ok" THEN r
              ELSE LET acc2 == DictSet(acc, t[i].v, r.v)
                       e == skip_ws(t, r.i)
                   IN  IF e > Len(t) THEN PErr
                       ELSE IF t[e] = Ch("}") THEN POk(JDict(acc2), e + 1)
                       ELSE IF t[e] = Ch(",") THEN scan_object(t, skip_ws(t, e + 1), d, acc2)
                       ELSE PErr

\* The elements of an array from index i, which must hold a value.
scan_array(t, i, d, acc) ==
    LET r == scan_once(t, i, d) IN
    IF r.st # "ok" THEN r
    ELSE LET acc2 == Append(acc, Member("", r.v))
             e == skip_ws(t, r.i)
         IN  IF e > Len(t) THEN PErr
             ELSE IF t[e] = Ch("]") THEN POk(JList(acc2), e + 1)
             ELSE IF t[e] = Ch(",") THEN scan_array(t, skip_ws(t, e + 1), d, acc2)
             ELSE PErr

\* json.loads(text): one value, whitespace allowed around it, nothing after.
json_loads(t) ==
    LET r == scan_once(t, skip_ws(t, 1), 0) IN
    IF r.st # "ok" THEN r
    ELSE IF skip_ws(t, r.i) # Len(t) + 1 THEN PErr
    ELSE r

\* ------------------------------------------- _extract_json_from_response
\* Mutant: the opening fence loses its three backticks only, never "json".
strip_opening_fence_backticks_only(text) ==
    IF startswith_fence(text) THEN SubSeq(text, 4, Len(text)) ELSE text

strip_opening_fence(text) ==
    IF startswith_fence_json(text) THEN SubSeq(text, 5, Len(text))
    ELSE IF startswith_fence(text) THEN SubSeq(text, 4, Len(text))
    ELSE text

strip_closing_fence(text) ==
    IF endswith_fence(text) THEN SubSeq(text, 1, Len(text) - 3) ELSE text

\* The text handed to the first json.loads.
unfenced(response_text) ==
    strip(strip_closing_fence(strip_opening_fence(strip(response_text))))

\* The fallback: the substring from the first '{' to the last '}'.
brace_fallback(text) ==
    LET start_idx == find(text, "{")
        end_idx == rfind(text, "}")
    IN  IF start_idx # 0 /\ end_idx # 0
        THEN LET r == json_loads(SubSeq(text, start_idx, end_idx)) IN
             IF r.st = "err" THEN POk(JNull, 0) ELSE r
        ELSE POk(JNull, 0)

\* The outcome of a call: st = "ok" with the value returned, or the name of
\* the exception that leaves the function.
Returned(v) == [st |-> "ok", v |-> v]
Raised(e) == [st |-> e, v |-> JNull]

\* _extract_json_from_response: the dict (or other JSON value) decoded, None
\* (JNull) when neither attempt decodes, and RecursionError out of json.loads,
\* which the function's except json.JSONDecodeError clauses do not catch.
extract_json_from_response(response_text) ==
    LET text == unfenced(response_text)
        r == json_loads(text)
        f == IF r.st = "err" THEN brace_fallback(text) ELSE r
    IN  IF f.st = "rec" THEN Raised("RecursionError") ELSE Returned(f.v)

\* ---------------------------------------------------- _is_valid_line_item
required_fields == <<"subsidiary", "section", "line_name", "value">>
valid_sections == {"assets", "liabilities", "equity", "income", "cashflow"}

\* (field in item) by the item's Python type: a key of a dict, an element of
\* a list, a substring of a str (no string of the texts used here properly
\* contains a field name), and TypeError for None, a bool or a number.
Contains(item, field) ==
    CASE item.k = "dict" -> HasKey(item, field)
      [] item.k = "list" -> \E i \in 1..Len(item.m) : item.m[i].val = JStr(field)
      [] item.k = "str" -> item.s = field
      [] OTHER -> FALSE

NotIterable(item) == item.k \in {"null", "bool", "num"}

\* The value check: an int or float (bool is an int) is numeric; otherwise
\* float(value), whose ValueError and TypeError make the item invalid.
value_is_numeric(value) ==
    \/ value.k \in {"num", "bool"}
    \/ value.k = "str" /\ value.s \in NumericStrings

\* "True", "False", or the exception that leaves the function: the loop over
\* required_fields and item.get are outside its try.
is_valid_line_item(item) ==
    IF NotIterable(item) THEN "TypeError"
    ELSE IF \E i \in 1..Len(required_fields) : ~Contains(item, required_fields[i])
    THEN "False"
    ELSE IF item.k # "dict" THEN "AttributeError"
    ELSE IF ~(Get(item, "section").k = "str" /\ Get(item, "section").s \in valid_sections)
    THEN "False"
    ELSE IF value_is_numeric(Get(item, "value")) THEN "True"
    ELSE "False"

\* ------------------------------------------------- models/schemas.py
\* pydantic validation of one field: whether the input is accepted, and the
\* field's value when it is.  A str field takes a str only.
str_field_ok(x) == x.k = "str"
str_field(x) == x.s

\* Optional[str]: None or a str.
optional_str_ok(x) == x.k \in {"null", "str"}
optional_str(x) == IF x.k = "str" THEN Some(x.s) ELSE None

\* float: a number, or a str that parses as one.
float_field_ok(x) == x.k \in {"num", "bool"} \/ (x.k = "str" /\ x.s \in NumericStrings)
float_field(x) == IF x.k = "str" THEN NumberValue(x.s) ELSE IF x.k = "bool" THEN x.n * 100 ELSE x.n

\* GeminiSubsidiary: name: str, parent: Optional[str] = None
GeminiSubsidiary_ok(x) ==
    /\ x.k = "dict"
    /\ HasKey(x, "name") /\ str_field_ok(Get(x, "name"))
    /\ (HasKey(x, "parent") => optional_str_ok(Get(x, "parent")))

GeminiSubsidiary(x) ==
    [name |-> str_field(Get(x, "name")),
     parent |-> IF HasKey(x, "parent") THEN optional_str(Get(x, "parent")) ELSE None]

\* GeminiLineItem: subsidiary, section, line_name: str, value: float,
\* currency: Optional[str] = "INR"
GeminiLineItem_ok(x) ==
    /\ x.k = "dict"
    /\ \A i \in 1..Len(required_fields) : HasKey(x, required_fields[i])
    /\ str_field_ok(Get(x, "subsidiary"))
    /\ str_field_ok(Get(x, "section"))
    /\ str_field_ok(Get(x, "line_name"))
    /\ float_field_ok(Get(x, "value"))
    /\ (HasKey(x, "currency") => optional_str_ok(Get(x, "currency")))

GeminiLineItem(x) ==
    [subsidiary |-> str_field(Get(x, "subsidiary")),
     section |-> str_field(Get(x, "section")),
     line_name |-> str_field(Get(x, "line_name")),
     value |-> float_field(Get(x, "value")),
     currency |-> IF HasKey(x, "currency") THEN optional_str(Get(x, "currency"))
                  ELSE Some("INR")]

\* GeminiParsedData(entity=, subsidiaries=, line_items=): Some(model), or None
\* when pydantic raises ValidationError.
GeminiParsedData(entity, subsidiaries, line_items) ==
    IF /\ entity.k = "dict"
       /\ \A i \in 1..Len(subsidiaries) : GeminiSubsidiary_ok(subsidiaries[i])
       /\ \A i \in 1..Len(line_items) : GeminiLineItem_ok(line_items[i])
    THEN Some([entity |-> entity,
               subsidiaries |-> [i \in 1..Len(subsidiaries) |-> GeminiSubsidiary(subsidiaries[i])],
               line_items |-> [i \in 1..Len(line_items) |-> GeminiLineItem(line_items[i])]])
    ELSE None

\* GeminiProcessingResult(success=, data=, error=, raw=)
GeminiProcessingResult(success, data, error, raw) ==
    [success |-> success, data |-> data, error |-> error, raw |-> raw]

\* --------------------------------------------------- _validate_parsed_data
\* The elements of a list value, as a sequence of values.
Elements(x) == [i \in 1..Len(x.m) |-> x.m[i].val]

\* valid_line_items: the items _is_valid_line_item returns True for, in order.
RECURSIVE filter_line_items(_)
filter_line_items(items) ==
    IF items = <<>> THEN <<>>
    ELSE IF is_valid_line_item(Head(items)) = "True"
         THEN <<Head(items)>> \o filter_line_items(Tail(items))
         ELSE filter_line_items(Tail(items))

top_level_keys == <<"entity", "subsidiaries", "line_items">>

\* Some(GeminiParsedData) or None.  Every exception raised inside (TypeError
\* of (in) on a number, AttributeError of .get on a list or str, an exception
\* out of _is_valid_line_item, pydantic's ValidationError) is caught by the
\* function's except Exception and becomes None.
validate_parsed_data(data) ==
    IF NotIterable(data) THEN None
    ELSE IF \E i \in 1..Len(top_level_keys) : ~Contains(data, top_level_keys[i]) THEN None
    ELSE IF data.k # "dict" THEN None
    ELSE LET entity == Get(data, "entity")
             subsidiaries == Get(data, "subsidiaries")
             line_items == Get(data, "line_items")
         IN  IF entity.k # "dict" THEN None
             ELSE IF subsidiaries.k # "list" THEN None
             ELSE IF line_items.k # "list" THEN None
             ELSE IF \E i \in 1..Len(line_items.m) :
                        is_valid_line_item(line_items.m[i].val) \notin {"True", "False"}
             THEN None
             ELSE GeminiParsedData(entity, Elements(subsidiaries),
                                   filter_line_items(Elements(line_items)))

\* ----------------------------------------------------------------- inputs
\* json.dumps-like rendering of a value, used to write the model's responses.
NumberLexeme(n) == CHOOSE x \in NumberLexemes : NumberValue(x) = n

RECURSIVE Render(_)
RECURSIVE RenderMembers(_, _)
Render(x) ==
    CASE x.k = "null" -> <<W("null")>>
      [] x.k = "bool" -> IF x.n = 1 THEN <<W("true")>> ELSE <<W("false")>>
      [] x.k = "num" -> <<N(NumberLexeme(x.n))>>
      [] x.k = "str" -> <<S(x.s)>>
      [] x.k = "list" -> <<Ch("[")>> \o RenderMembers(x.m, FALSE) \o <<Ch("]")>>
      [] x.k = "dict" -> <<Ch("{")>> \o RenderMembers(x.m, TRUE) \o <<Ch("}")>>

RenderMembers(ms, keyed) ==
    IF ms = <<>> THEN <<>>
    ELSE (IF keyed THEN <<S(Head(ms).key), Ch(":")>> ELSE <<>>)
         \o Render(Head(ms).val)
         \o (IF Len(ms) > 1 THEN <<Ch(",")>> ELSE <<>>)
         \o RenderMembers(Tail(ms), keyed)

\* A dict with the given members; an Optional member is left out when None.
RECURSIVE Obj(_)
Obj(pairs) ==
    IF pairs = <<>> THEN <<>>
    ELSE (IF Head(pairs)[2] = None THEN <<>>
          ELSE <<Member(Head(pairs)[1], Head(pairs)[2][1])>>) \o Obj(Tail(pairs))

Item(subsidiary, section, line_name, value, currency) ==
    JDict(Obj(<<<<"subsidiary", subsidiary>>, <<"section", section>>,
                <<"line_name", line_name>>, <<"value", value>>,
                <<"currency", currency>>>>))

GoodItem == Item(Some(JStr("Acme")), Some(JStr("assets")), Some(JStr("Cash")),
                 Some(JNum(10000)), None)
GoodItemNumericString ==
    Item(Some(JStr("Sub")), Some(JStr("equity")), Some(JStr("Capital")),
         Some(JStr("1000.50")), Some(JStr("USD")))

\* The line-item entries the model's responses are built from.
ItemShapes ==
    { GoodItem,
      GoodItemNumericString,
      Item(None, Some(JStr("assets")), Some(JStr("Cash")), Some(JNum(10000)), None),
      Item(Some(JStr("Acme")), None, Some(JStr("Cash")), Some(JNum(10000)), None),
      Item(Some(JStr("Acme")), Some(JStr("assets")), None, Some(JNum(10000)), None),
      Item(Some(JStr("Acme")), Some(JStr("assets")), Some(JStr("Cash")), None, None),
      Item(Some(JStr("Acme")), Some(JStr("bogus")), Some(JStr("Cash")), Some(JNum(10000)), None),
      Item(Some(JStr("Acme")), Some(JStr("income")), Some(JStr("Sales")), Some(JStr("abc")), None),
      Item(Some(JStr("Acme")), Some(JStr("cashflow")), Some(JStr("Capex")), Some(JNull), None),
      Item(Some(JNull), Some(JStr("assets")), Some(JStr("Cash")), Some(JNum(10000)), None),
      Item(Some(JStr("Acme")), Some(JStr("liabilities")), Some(JList(<<>>)), Some(JNum(500)), None),
      JNum(500),
      JNull,
      JStr("x"),
      JList(<<>>) }

\* The sequences of at most n elements of a set.
RECURSIVE SeqsUpTo(_, _)
SeqsUpTo(set, n) ==
    IF n = 0 THEN {<<>>}
    ELSE LET shorter == SeqsUpTo(set, n - 1) IN
         shorter \cup {Append(q, x) : q \in {r \in shorter : Len(r) = n - 1}, x \in set}

AsList(seq) == JList([i \in 1..Len(seq) |-> Member("", seq[i])])

Document(entity, subsidiaries, line_items) ==
    JDict(Obj(<<<<"entity", entity>>, <<"subsidiaries", subsidiaries>>,
                <<"line_items", line_items>>>>))

\* Responses with a valid top-level shape and every list of line items.
ItemDocuments ==
    {Document(Some(JDict(<<Member("name", JStr("Acme"))>>)), Some(JList(<<>>)), Some(AsList(q))) :
        q \in SeqsUpTo(ItemShapes, MaxItems)}

\* Responses varying the top-level keys and their types.
EntityChoices == {None, Some(JDict(<<>>)), Some(JDict(<<Member("name", JStr("Acme"))>>)),
                  Some(JStr("Acme"))}
SubsidiariesChoices ==
    {None, Some(JList(<<>>)),
     Some(AsList(<<JDict(<<Member("name", JStr("Sub")), Member("parent", JStr("Acme"))>>)>>)),
     Some(AsList(<<JDict(<<Member("name", JStr("Sub")), Member("parent", JNull)>>)>>)),
     Some(AsList(<<JDict(<<Member("parent", JStr("Acme"))>>)>>)),
     Some(JStr("none"))}
LineItemsChoices == {None, Some(JList(<<>>)), Some(AsList(<<GoodItem>>)), Some(JDict(<<>>))}

TopLevelDocuments ==
    {Document(e, s, l) : e \in EntityChoices, s \in SubsidiariesChoices, l \in LineItemsChoices}
    \cup {JDict(<<Member("note", JNum(4200))>>)}

\* Short texts over a few characters and literals: prose, stray braces and
\* brackets, bare JSON values.
RawAlphabet == {Ch("{"), Ch("}"), Ch("["), Ch("]"), N("42"), W("Here")}
\* Two adjacent number literals would be one literal.
Tokenised(t) == \A i \in 1..(Len(t) - 1) : ~(t[i].c = "num" /\ t[i + 1].c = "num")
RawTexts ==
    {t \in SeqsUpTo(RawAlphabet, MaxRawLen) : Tokenised(t)}
    \cup {<<N("0")>>, <<W("null")>>, <<W("true")>>, <<S("hi")>>,
          <<W("Sorry"), Space, W("no"), Space, W("data")>>,
          [i \in 1..(RecursionLimit + 1) |-> Ch("[")]}

Fence == <<Backtick, Backtick, Backtick>>
JsonFenced(t) == Fence \o <<W("json"), Newline>> \o t \o <<Newline>> \o Fence
PlainFenced(t) == Fence \o <<Newline>> \o t \o <<Newline>> \o Fence
InProse(t) == <<W("Here"), Space>> \o t \o <<Space, W("ok")>>
Padded(t) == <<Newline, Space>> \o t \o <<Space, Newline>>

\* response.text: what the model may answer.
ResponseTexts ==
    {Render(d) : d \in ItemDocuments \cup TopLevelDocuments}
    \cup {JsonFenced(Render(d)) : d \in TopLevelDocuments}
    \cup {PlainFenced(Render(d)) : d \in TopLevelDocuments}
    \cup {InProse(Render(d)) : d \in TopLevelDocuments}
    \cup {Padded(Render(d)) : d \in TopLevelDocuments}
    \cup RawTexts
    \cup {JsonFenced(t) : t \in {<<N("42")>>, <<Ch("["), N("42"), Ch("]")>>, <<W("Here")>>}}

\* What generate_content or response.text may raise.
Exc(type, msg) == [type |-> type, msg |-> msg]
ModelExceptions ==
    {Exc("JSONDecodeError", "Expecting value: line 1 column 1 (char 0)"),
     Exc("ResourceExhausted", "429 quota exceeded"),
     Exc("ValueError", "")}

\* ------------------------------------------------------------------ state
VARIABLES
    pc,            \* where the current invocation of process_balance_sheet_pdf is
    invocations,   \* invocations started so far
    model_calls,   \* generate_content calls issued by the current invocation
    raw_response,  \* Optional: response.text
    parsed_json,   \* Optional: what _extract_json_from_response returned
    result,        \* Optional: the GeminiProcessingResult returned
    escaped,       \* Optional: the exception that left the invocation
    fence_pc,      \* the fence experiment: "choose", "chosen", "extracted"
    fence_json,    \* a valid JSON text J
    fence_wrapped, \* J inside a json fence
    plain_out,     \* Optional: _extract_json_from_response(J)
    wrapped_out,   \* Optional: _extract_json_from_response(wrapped J)
    auth_pc,       \* the guard: "idle", "called", "done"
    request,       \* the request JWTBearer.__call__ is awaited with
    state_user,    \* Optional: request.state.user
    auth_outcome   \* Optional: what JWTBearer.__call__ returned or raised

pipeline_vars == <<pc, invocations, model_calls, raw_response, parsed_json, result, escaped>>
fence_vars == <<fence_pc, fence_json, fence_wrapped, plain_out, wrapped_out>>
auth_vars == <<auth_pc, request, state_user, auth_outcome>>
vars == <<pipeline_vars, fence_vars, auth_vars>>

COULD_NOT_EXTRACT == "Could not extract valid JSON from Gemini response"
STRUCTURE_MISMATCH == "Parsed data does not match expected structure"

\* How an invocation ends: with a result returned, or with an exception
\* leaving it.
Return(r) == [result |-> Some(r), escaped |-> None]

\* Mutant: the extraction failure is flagged a success.
extraction_failure_flagged_success(raw) ==
    Return(GeminiProcessingResult(TRUE, None, Some(COULD_NOT_EXTRACT), Some(raw)))

\* return GeminiProcessingResult(success=False, ..., raw=raw_response) after
\* (if not parsed_json)
extraction_failure(raw) ==
    Return(GeminiProcessingResult(FALSE, None, Some(COULD_NOT_EXTRACT), Some(raw)))

\* the return after (if not validated_data)
validation_failure(raw) ==
    Return(GeminiProcessingResult(FALSE, None, Some(STRUCTURE_MISMATCH), Some(raw)))

\* the final return
success(data, raw) ==
    Return(GeminiProcessingResult(TRUE, Some(data), None, Some(raw)))

\* Mutant: only the except json.JSONDecodeError clause; anything else leaves
\* the invocation.
handle_json_decode_error_only(e) ==
    IF e.type = "JSONDecodeError"
    THEN Return(GeminiProcessingResult(FALSE, None, Some("JSON parsing error: " \o e.msg), None))
    ELSE [result |-> None, escaped |-> Some(e.type)]

\* The two except clauses around the whole body: json.JSONDecodeError, then
\* Exception.
handle_exception(e) ==
    IF e.type = "JSONDecodeError"
    THEN Return(GeminiProcessingResult(FALSE, None, Some("JSON parsing error: " \o e.msg), None))
    ELSE Return(GeminiProcessingResult(FALSE, None, Some("Processing error: " \o e.msg), None))

PipelineInit ==
    /\ pc = "idle"
    /\ invocations = 0
    /\ model_calls = 0
    /\ raw_response = None
    /\ parsed_json = None
    /\ result = None
    /\ escaped = None

\* The caller awaits process_balance_sheet_pdf(pdf_bytes, entity_name); every
\* local starts unbound.
Invoke ==
    /\ pc \in {"idle", "returned"}
    /\ invocations < MaxInvocations
    /\ invocations' = invocations + 1
    /\ pc' = "generate_content"
    /\ model_calls' = 0
    /\ raw_response' = None
    /\ parsed_json' = None
    /\ result' = None
    /\ escaped' = None
    /\ UNCHANGED <<fence_vars, auth_vars>>

\* Mutant: a failed model call is issued again.
GenerateContentRaisesThenRetries ==
    /\ pc = "generate_content"
    /\ model_calls < 3
    /\ model_calls' = model_calls + 1
    /\ UNCHANGED <<pc, invocations, raw_response, parsed_json, result, escaped,
                   fence_vars, auth_vars>>

\* model.generate_content(...) or response.text raises.
GenerateContentRaises ==
    /\ pc = "generate_content"
    /\ \E e \in ModelExceptions :
         /\ result' = handle_exception(e).result
         /\ escaped' = handle_exception(e).escaped
    /\ model_calls' = model_calls + 1
    /\ pc' = "returned"
    /\ UNCHANGED <<invocations, raw_response, parsed_json, fence_vars, auth_vars>>

\* raw_response = response.text
GenerateContentReturns ==
    /\ pc = "generate_content"
    /\ \E text \in ResponseTexts : raw_response' = Some(text)
    /\ model_calls' = model_calls + 1
    /\ pc' = "extract"
    /\ UNCHANGED <<invocations, parsed_json, result, escaped, fence_vars, auth_vars>>

\* parsed_json = _extract_json_from_response(raw_response), and the return
\* under (if not parsed_json).
ExtractJson ==
    /\ pc = "extract"
    /\ LET r == extract_json_from_response(raw_response[1])
           end == IF r.st # "ok"
                  THEN handle_exception(Exc(r.st, "maximum recursion depth exceeded"))
                  ELSE extraction_failure(raw_response[1])
       IN  IF r.st = "ok" /\ ~Falsy(r.v)
           THEN /\ parsed_json' = Some(r.v)
                /\ pc' = "validate"
                /\ UNCHANGED <<result, escaped>>
           ELSE /\ parsed_json' = IF r.st = "ok" THEN Some(r.v) ELSE None
                /\ result' = end.result
                /\ escaped' = end.escaped
                /\ pc' = "returned"
    /\ UNCHANGED <<invocations, model_calls, raw_response, fence_vars, auth_vars>>

\* validated_data = _validate_parsed_data(parsed_json), the return under
\* (if not validated_data), and the final return.
ValidateData ==
    /\ pc = "validate"
    /\ LET validated_data == validate_parsed_data(parsed_json[1])
           end == IF validated_data = None
                  THEN validation_failure(raw_response[1])
                  ELSE success(validated_data[1], raw_response[1])
       IN  /\ result' = end.result
           /\ escaped' = end.escaped
    /\ pc' = "returned"
    /\ UNCHANGED <<invocations, model_calls, raw_response, parsed_json, fence_vars, auth_vars>>

PipelineNext ==
    \/ Invoke
    \/ GenerateContentRaises
    \/ GenerateContentReturns
    \/ ExtractJson
    \/ ValidateData

\* ------------------------------------------------- the fence experiment
\* _extract_json_from_response applied to a valid JSON text and to the same
\* text inside a json fence.
FenceCandidates ==
    RawTexts
    \cup {Render(d) : d \in TopLevelDocuments}
    \cup {Padded(Render(d)) : d \in TopLevelDocuments}
    \cup {<<Ch("["), Space, N("42"), Ch(","), Newline, S("hi"), Ch("]")>>}

ValidJsonTexts == {t \in FenceCandidates : json_loads(t).st = "ok"}

WhitespaceRuns == {<<>>, <<Newline>>, <<Space>>, <<Space, Newline>>}

FenceInit ==
    /\ fence_pc = "choose"
    /\ fence_json = <<>>
    /\ fence_wrapped = <<>>
    /\ plain_out = None
    /\ wrapped_out = None

ChooseJson ==
    /\ fence_pc = "choose"
    /\ \E J \in ValidJsonTexts, before \in {<<>>, <<Newline>>}, open \in WhitespaceRuns,
          close \in WhitespaceRuns, after \in {<<>>, <<Newline>>} :
         /\ fence_json' = J
         /\ fence_wrapped' = before \o Fence \o <<W("json")>> \o open \o J \o close \o Fence \o after
    /\ fence_pc' = "chosen"
    /\ UNCHANGED <<plain_out, wrapped_out, pipeline_vars, auth_vars>>

ExtractBoth ==
    /\ fence_pc = "chosen"
    /\ plain_out' = Some(extract_json_from_response(fence_json))
    /\ wrapped_out' = Some(extract_json_from_response(fence_wrapped))
    /\ fence_pc' = "extracted"
    /\ UNCHANGED <<fence_json, fence_wrapped, pipeline_vars, auth_vars>>

FenceNext ==
    \/ ChooseJson
    \/ ExtractBoth

\* ------------------------------------------------------ auth/jwt_guard.py
AUD == "authenticated"
ALGS == {"ES256"}

\* A bearer token, by what verification looks at.
Tokens ==
    [well_formed : BOOLEAN, kid_known : BOOLEAN,
     alg : {"ES256", "RS256"}, signature_ok : BOOLEAN, has_exp : BOOLEAN,
     has_iat : BOOLEAN, exp_past : BOOLEAN, aud : {"authenticated", "anon"}]

NoToken ==
    [well_formed |-> FALSE, kid_known |-> FALSE, alg |-> "RS256",
     signature_ok |-> FALSE, has_exp |-> FALSE, has_iat |-> FALSE, exp_past |-> FALSE,
     aud |-> "anon"]

\* What super().__call__(request) gives: "cred" (credentials with a scheme and
\* a token), "none" (no credentials: None), or "raises" (HTTPBearer's own
\* HTTPException when it is built with auto_error).
Requests ==
    [super : {"cred"}, scheme : {"Bearer", "bearer", "Basic"}, token : Tokens]
    \cup [super : {"none", "raises"}, scheme : {""}, token : {NoToken}]

\* cred.scheme.lower()
lower(x) == IF x = "Bearer" THEN "bearer" ELSE IF x = "Basic" THEN "basic" ELSE x

\* _jwk_client.get_signing_key_from_jwt(token): "key", or the exception raised.
get_signing_key_from_jwt(token) ==
    IF ~token.well_formed THEN "DecodeError"
    ELSE IF ~token.kid_known THEN "PyJWKClientError"
    ELSE "key"

\* jwt.decode(token, signing_key, algorithms=ALGS, audience=AUD,
\* options={"require": ["exp", "iat"]}): "payload", or the exception raised.
jwt_decode(token) ==
    IF token.alg \notin ALGS THEN "InvalidAlgorithmError"
    ELSE IF ~token.signature_ok THEN "InvalidSignatureError"
    ELSE IF ~(token.has_exp /\ token.has_iat) THEN "MissingRequiredClaimError"
    ELSE IF token.exp_past THEN "ExpiredSignatureError"
    ELSE IF token.aud # AUD THEN "InvalidAudienceError"
    ELSE "payload"

\* The exception classes the two except clauses catch: jwt.ExpiredSignatureError,
\* and jwt.InvalidTokenError with its subclasses.  PyJWKClientError (no key
\* of the key set matches the token's kid) derives from PyJWTError, not from
\* InvalidTokenError.
InvalidTokenErrors ==
    {"InvalidTokenError", "DecodeError", "InvalidSignatureError", "ExpiredSignatureError",
     "InvalidAudienceError", "InvalidAlgorithmError", "MissingRequiredClaimError"}

HTTPException(status_code, detail) ==
    [kind |-> "HTTPException", status_code |-> status_code, detail |-> detail]
Uncaught(e) == [kind |-> "exception", status_code |-> 500, detail |-> e]
ReturnedToken == [kind |-> "token", status_code |-> 200, detail |-> ""]

\* The try block's except clauses.
guard_except(e) ==
    IF e = "ExpiredSignatureError" THEN HTTPException(401, "Token expired")
    ELSE IF e \in InvalidTokenErrors THEN HTTPException(401, "Invalid token")
    ELSE Uncaught(e)

\* JWTBearer.__call__ once super().__call__ has returned cred.
guard_outcome(req) ==
    IF req.super = "none" \/ lower(req.scheme) # "bearer"
    THEN HTTPException(401, "Invalid auth scheme")
    ELSE IF get_signing_key_from_jwt(req.token) # "key"
    THEN guard_except(get_signing_key_from_jwt(req.token))
    ELSE IF jwt_decode(req.token) # "payload"
    THEN guard_except(jwt_decode(req.token))
    ELSE ReturnedToken

AuthInit ==
    /\ auth_pc = "idle"
    /\ request = [super |-> "none", scheme |-> "", token |-> NoToken]
    /\ state_user = None
    /\ auth_outcome = None

\* A request reaches a route that depends on JWTBearer.
ReceiveRequest ==
    /\ auth_pc = "idle"
    /\ \E req \in Requests : request' = req
    /\ auth_pc' = "called"
    /\ UNCHANGED <<state_user, auth_outcome, pipeline_vars, fence_vars>>

\* cred = await super().__call__(request) raises: HTTPBearer rejects the
\* request itself (403 or 401 by the FastAPI version, "Not authenticated").
SuperRaises ==
    /\ auth_pc = "called"
    /\ request.super = "raises"
    /\ \E status \in {401, 403} :
         auth_outcome' = Some(HTTPException(status, "Not authenticated"))
    /\ auth_pc' = "done"
    /\ UNCHANGED <<request, state_user, pipeline_vars, fence_vars>>

\* The rest of JWTBearer.__call__.
JWTBearerCall ==
    /\ auth_pc = "called"
    /\ request.super # "raises"
    /\ auth_outcome' = Some(guard_outcome(request))
    /\ state_user' = IF guard_outcome(request) = ReturnedToken THEN Some(request.token)
                     ELSE state_user
    /\ auth_pc' = "done"
    /\ UNCHANGED <<request, pipeline_vars, fence_vars>>

AuthNext ==
    \/ ReceiveRequest
    \/ SuperRaises
    \/ JWTBearerCall

\* ---------------------------------------------------------- specifications
Init == PipelineInit /\ FenceInit /\ AuthInit

\* The extraction pipeline.
Next == PipelineNext
Spec == Init /\ [][Next]_vars

\* The fence experiment.
SpecFence == Init /\ [][FenceNext]_vars

\* The token guard.
SpecAuth == Init /\ [][AuthNext]_vars

\* ------------------------------------------------------------------ claims
Returned_ == pc = "returned" /\ result # None
ObtainedText == raw_response # None
NoBraces(t) == find(t, "{") = 0 /\ rfind(t, "}") = 0

\* The top-level shape the claims call valid: entity a mapping, subsidiaries
\* and line_items lists (with well-formed subsidiaries entries, so that only
\* line items can be at fault).
TopLevelShapeValid(d) ==
    /\ d.k = "dict"
    /\ HasKey(d, "entity") /\ HasKey(d, "subsidiaries") /\ HasKey(d, "line_items")
    /\ Get(d, "entity").k = "dict"
    /\ Get(d, "subsidiaries").k = "list"
    /\ Get(d, "line_items").k = "list"
    /\ \A i \in 1..Len(Get(d, "subsidiaries").m) :
         LET sub == Get(d, "subsidiaries").m[i].val IN
         /\ sub.k = "dict"
         /\ HasKey(sub, "name") /\ Get(sub, "name").k = "str"
         /\ (HasKey(sub, "parent") => Get(sub, "parent").k \in {"null", "str"})

\* A line item as the claims describe a sound one: the four fields, a section
\* of the enumeration, a value that is a number or a numeric string.
SoundItem(x) ==
    /\ x.k = "dict"
    /\ \A i \in 1..Len(required_fields) : HasKey(x, required_fields[i])
    /\ Get(x, "section").k = "str"
    /\ Get(x, "section").s \in {"assets", "liabilities", "equity", "income", "cashflow"}
    /\ \/ Get(x, "value").k = "num"
       \/ Get(x, "value").k = "str" /\ Get(x, "value").s \in NumericStrings

RECURSIVE SoundItems(_)
SoundItems(items) ==
    IF items = <<>> THEN <<>>
    ELSE (IF SoundItem(Head(items)) THEN <<Head(items)>> ELSE <<>>) \o SoundItems(Tail(items))

\* The (subsidiary, section, line_name) of the sound entries, in order, and of
\* the entries of a result.
Names(items) ==
    [i \in 1..Len(items) |->
        <<Get(items[i], "subsidiary"), JStr(Get(items[i], "section").s), Get(items[i], "line_name")>>]
ResultNames(items) ==
    [i \in 1..Len(items) |->
        <<JStr(items[i].subsidiary), JStr(items[i].section), JStr(items[i].line_name)>>]

\* C1: every returned result is exactly one variant: success with data and no
\* error, or failure with no data and a non-empty error message.
C1_ExactlyOneVariant ==
    Returned_ =>
        \/ result[1].success /\ result[1].data # None /\ result[1].error = None
        \/ /\ ~result[1].success
           /\ result[1].data = None
           /\ result[1].error # None
           /\ result[1].error[1] # ""

\* C1 witness: both variants have been returned, a success with two retained
\* line items in the second invocation.
C1_Witness ==
    /\ Returned_
    /\ invocations = 2
    /\ result[1].success
    /\ Len(result[1].data[1].line_items) = 2

\* C2 (as claimed): with a valid top-level shape, whatever entries line_items
\* holds, the result is a Success whose line items are the sound entries.
C2_LineItemDefectsNeverAbort ==
    (Returned_ /\ parsed_json # None /\ TopLevelShapeValid(parsed_json[1])) =>
        /\ result[1].success
        /\ ResultNames(result[1].data[1].line_items)
             = Names(SoundItems(Elements(Get(parsed_json[1], "line_items"))))

\* C3 (as claimed): a response decoded to a JSON object without the line_items
\* key ends in Failure with the structure-mismatch message.
C3_MissingLineItemsIsMismatch ==
    (Returned_ /\ parsed_json # None /\ parsed_json[1].k = "dict"
        /\ ~HasKey(parsed_json[1], "line_items")) =>
        /\ ~result[1].success
        /\ result[1].error = Some(STRUCTURE_MISMATCH)

\* C4 (as claimed): a response with no brace anywhere ends in Failure with the
\* could-not-extract message.
C4_ProseIsExtractionFailure ==
    (Returned_ /\ ObtainedText /\ NoBraces(raw_response[1])) =>
        /\ ~result[1].success
        /\ result[1].error = Some(COULD_NOT_EXTRACT)

\* C5: no exception leaves an invocation; an invocation that has ended has
\* returned exactly one result, a Failure carrying a message whenever a stage
\* failed, and no result exists before it ends.
C5_NeverRaises ==
    /\ escaped = None
    /\ pc = "returned" =>
         /\ Len(result) = 1
         /\ (~result[1].success => result[1].error # None /\ result[1].error[1] # "")
         /\ (raw_response = None => ~result[1].success)
    /\ pc # "returned" => result = None

\* C5 witness: a stage after the model call raised (json.loads, RecursionError)
\* and the invocation returned a Failure.
C5_Witness ==
    /\ Returned_
    /\ ObtainedText
    /\ parsed_json = None
    /\ result[1].error = Some("Processing error: maximum recursion depth exceeded")

\* C6 (as claimed): in a response of valid top-level shape whose line items
\* are all mappings, the result is a Success and its line items are exactly
\* the entries with the four fields, a valid section and a numeric value.
C6_SoundItemsRetained ==
    (Returned_ /\ parsed_json # None /\ TopLevelShapeValid(parsed_json[1])
        /\ \A i \in 1..Len(Get(parsed_json[1], "line_items").m) :
              Get(parsed_json[1], "line_items").m[i].val.k = "dict") =>
        /\ result[1].success
        /\ ResultNames(result[1].data[1].line_items)
             = Names(SoundItems(Elements(Get(parsed_json[1], "line_items"))))
        /\ \A i \in 1..Len(result[1].data[1].line_items) :
             result[1].data[1].line_items[i].value
               = float_field(Get(SoundItems(Elements(Get(parsed_json[1], "line_items")))[i], "value"))

\* C7: extraction of a valid JSON text inside a json fence gives what
\* extraction of the bare text gives, which is the text's decoded value.
C7_FenceRoundTrip ==
    fence_pc = "extracted" =>
        /\ wrapped_out = plain_out
        /\ plain_out[1] = Returned(json_loads(fence_json).v)

\* C7 witness: a fenced document with whitespace around the fence and the
\* text, decoded to an object that has line_items.
C7_Witness ==
    /\ fence_pc = "extracted"
    /\ Head(fence_wrapped) = Newline
    /\ wrapped_out[1].st = "ok"
    /\ wrapped_out[1].v.k = "dict"
    /\ HasKey(wrapped_out[1].v, "line_items")

\* C8 (as claimed): a request the guard does not accept (and that HTTPBearer
\* itself let through) is rejected with HTTP 401 and one of the three reasons;
\* request.state.user is set only when every check passes.
C8_RejectsWith401 ==
    (auth_pc = "done" /\ request.super # "raises") =>
        /\ auth_outcome[1] # ReturnedToken =>
             /\ auth_outcome[1].kind = "HTTPException"
             /\ auth_outcome[1].status_code = 401
             /\ auth_outcome[1].detail \in {"Invalid auth scheme", "Token expired", "Invalid token"}
        /\ state_user # None => auth_outcome[1] = ReturnedToken

Stage(p) ==
    CASE p = "idle" -> 0
      [] p = "generate_content" -> 1
      [] p = "extract" -> 2
      [] p = "validate" -> 3
      [] p = "returned" -> 4

\* C9: an invocation issues at most one model call; after the call it issues
\* none; stages only advance; and once a result is returned (a Failure
\* included) the only step left is the caller's next invocation.
C9_SingleCallNoRetry ==
    [][/\ model_calls' <= 1
       /\ invocations' = invocations =>
            /\ Stage(pc') > Stage(pc)
            /\ (Stage(pc) >= 2 => model_calls' = model_calls)
            /\ (Stage(pc') >= 2 => model_calls' = 1)
       /\ pc = "returned" => (invocations' = invocations + 1 /\ model_calls' = 0)]_vars

\* C9 witness: the model call raised and the invocation returned its Failure
\* after that one call.
C9_Witness ==
    /\ Returned_
    /\ ~ObtainedText
    /\ model_calls = 1
    /\ ~result[1].success

\* C10 (as claimed): whenever the model returned text, the result carries it
\* as raw; raw is absent only when no text was obtained.
C10_RawPreserved ==
    Returned_ =>
        /\ ObtainedText => result[1].raw = raw_response
        /\ ~ObtainedText => result[1].raw = None

====
